---- MODULE Spec2Model ----
(***************************************************************************)
(* scripts/get_cbmonitor_data.py: for every job of --job_list the script   *)
(* downloads the Jenkins console log, scrapes the snapshot id, the node    *)
(* addresses and the bucket name from it, assembles the cbmonitor URLs,    *)
(* reduces every metric series to a mean or a maximum, writes the job      *)
(* record to <output_dir>/<project>-<number>.json and, after the loop,     *)
(* writes all records to <output_dir>/data.csv.                            *)
(*                                                                         *)
(* Text is a sequence of tokens (a token is a short string: one character  *)
(* where the script works on characters, a word elsewhere).  A Python      *)
(* float is the exact rational [num, den], den > 0.                        *)
(***************************************************************************)
EXTENDS Integers, Sequences, FiniteSets, TLC

VARIABLES
    job_list,     \* args.job_list
    idx,          \* position of the for loop in job_list (0 before the loop)
    pc,           \* the statement the script is at
    error,        \* the exception that ended the run ("" while none)
    project, number, label,
    consoleText, snapshot, nodes, bucket,
    urls,         \* the URL variables of lines 156-190
    hasLatency,
    fld,          \* the entry of the dict literal being evaluated
    partial,      \* the entries of the dict literal evaluated so far
    data,         \* the name 'data' (Unbound until first assigned)
    data_list,
    json_files,   \* the <project>-<number>.json writes, in order
    csv_file,     \* <output_dir>/data.csv
    downloads,    \* every downloadData call so far, in order
    skipped,      \* indices of the jobs that took the 'continue'
    rowJob,       \* rowJob[i]: index of the job that appended data_list[i]
    lastMax       \* the last getMax call: [called, series, result]

vars == <<job_list, idx, pc, error, project, number, label, consoleText,
          snapshot, nodes, bucket, urls, hasLatency, fld, partial, data,
          data_list, json_files, csv_file, downloads, skipped, rowJob,
          lastMax>>

-----------------------------------------------------------------------------
(* Bounds of the model *)

MaxJobs == 2

-----------------------------------------------------------------------------
(* Python string primitives, on token sequences *)

Max2(a, b) == IF a >= b THEN a ELSE b

IsPrefixAt(s, pat, i) ==
    /\ i + Len(pat) - 1 <= Len(s)
    /\ SubSeq(s, i, i + Len(pat) - 1) = pat

\* str.find(pat): 0-based index of the first occurrence, -1 when there is none
Find(s, pat) ==
    LET hits == {i \in 1..Len(s) : IsPrefixAt(s, pat, i)}
    IN  IF hits = {} THEN -1
        ELSE (CHOOSE i \in hits : \A j \in hits : i <= j) - 1

\* the end (1-based, inclusive) of the line that position i is on: '.' of a
\* regular expression does not match a newline
LineEnd(s, i) ==
    LET nl == {j \in i..Len(s) : s[j] = "\n"}
    IN  IF nl = {} THEN Len(s)
        ELSE (CHOOSE j \in nl : \A k \in nl : j <= k) - 1

\* re.findall(pat + ".*", s): the matches left to right, each running to the
\* end of its line
RECURSIVE FindAllFrom(_, _, _)
FindAllFrom(s, pat, from) ==
    LET hits == {i \in from..Len(s) : IsPrefixAt(s, pat, i)}
    IN  IF hits = {} THEN <<>>
        ELSE LET i == CHOOSE h \in hits : \A j \in hits : h <= j
                 e == Max2(LineEnd(s, i), i + Len(pat) - 1)
             IN  <<SubSeq(s, i, e)>> \o FindAllFrom(s, pat, e + 1)

FindAll(s, pat) == FindAllFrom(s, pat, 1)

\* re.search(pat + ".*", s): <<>> stands for None, else <<group(0)>>
Search(s, pat) ==
    LET all == FindAll(s, pat)
    IN  IF all = <<>> THEN <<>> ELSE <<all[1]>>

\* str.split(sep): the pieces between the occurrences of sep
RECURSIVE Split(_, _)
Split(s, sep) ==
    LET k == Find(s, sep)
    IN  IF k = -1 THEN <<s>>
        ELSE <<SubSeq(s, 1, k)>> \o
             Split(SubSeq(s, k + 1 + Len(sep), Len(s)), sep)

IsSpace(c) == c \in {" ", "\n", "\t", "\r"}

\* str.strip()
RECURSIVE Strip(_)
Strip(s) ==
    IF s = <<>> THEN s
    ELSE IF IsSpace(s[1]) THEN Strip(Tail(s))
    ELSE IF IsSpace(s[Len(s)]) THEN Strip(SubSeq(s, 1, Len(s) - 1))
    ELSE s

\* str.replace(".", "")
RemoveDots(s) == SelectSeq(s, LAMBDA c : c # ".")

-----------------------------------------------------------------------------
(* The log scraper, lines 122-152 *)

SnapshotMarker == <<"snapshot", "=">>
NodeMarker     == <<"Getting memcached port ", "from">>
BucketMarker   == <<"Adding new bucket">>
LatencyMarker  == <<"spring_latency">>

\* line 122: consoleText.find("snapshot=") == -1
SnapshotMissing(text) == Find(text, SnapshotMarker) = -1

\* line 126
SnapshotOf(text) == Split(Search(text, SnapshotMarker)[1], <<"=">>)[2]

\* line 140
NodeOf(match) == RemoveDots(Strip(Split(match, <<"from">>)[2]))

\* lines 136-141
NodesOf(text) ==
    LET all == FindAll(text, NodeMarker)
    IN  {NodeOf(all[i]) : i \in 1..Len(all)}

\* lines 148-151: <<>> when re.search returns None or the line has no ':'
BucketOf(text) ==
    LET m == Search(text, BucketMarker)
    IN  IF m = <<>> THEN <<>>
        ELSE LET parts == Split(m[1], <<":">>)
             IN  IF Len(parts) < 2 THEN <<>> ELSE <<Strip(parts[2])>>

\* line 194 with the test dropped
HasLatencyAlways(text) == TRUE

\* line 194
HasLatencyOf(text) == Find(text, LatencyMarker) # -1

-----------------------------------------------------------------------------
(* URL assembly, lines 154-190 *)

host == "http://cbmonitor.sc.couchbase.com:8080"

\* host + "/" + "<dataset>" + snapshot [+ "<ip/bucket>"]  (lines 156, 157,
\* 160, 174, 182, 185)
BaseUrlSeparated(dataset, snap, seg) ==
    <<host, "/", dataset, "/">> \o snap \o
    (IF seg = <<>> THEN <<>> ELSE <<"/">> \o seg)

BaseUrl(dataset, snap, seg) == <<host, "/", dataset>> \o snap \o seg

Resource(base, name) == base \o <<"/", name>>

\* 'for node in nodes' walks the set in the order the interpreter's hashing
\* gives: a fixed function of the set's content, otherwise unspecified
SetOrder(S) ==
    CHOOSE s \in [1..Cardinality(S) -> S] : \A x \in S : \E i \in DOMAIN s : s[i] = x

PerNode(dataset, snap, nds, name) ==
    LET order == SetOrder(nds)
    IN  [i \in 1..Len(order) |-> Resource(BaseUrl(dataset, snap, order[i]), name)]

Catalog(snap, bkt, nds) ==
    LET base_url_ns_server      == BaseUrl("ns_server", snap, bkt)
        base_url_spring_latency == BaseUrl("spring_latency", snap, bkt)
    IN  [ops                   |-> Resource(BaseUrl("ns_server", snap, <<>>), "ops"),
         latency_get           |-> Resource(base_url_spring_latency, "latency_get"),
         latency_set           |-> Resource(base_url_spring_latency, "latency_set"),
         avg_bg_wait_time      |-> Resource(base_url_ns_server, "avg_bg_wait_time"),
         avg_disk_commit_time  |-> Resource(base_url_ns_server, "avg_disk_commit_time"),
         avg_disk_update_time  |-> Resource(base_url_ns_server, "avg_disk_update_time"),
         data_rps              |-> PerNode("iostat", snap, nds, "data_rps"),
         data_wps              |-> PerNode("iostat", snap, nds, "data_wps"),
         data_rbps             |-> PerNode("iostat", snap, nds, "data_rbps"),
         data_wbps             |-> PerNode("iostat", snap, nds, "data_wbps"),
         couch_total_disk_size |-> Resource(base_url_ns_server, "couch_total_disk_size"),
         memcached_rss         |-> PerNode("atop", snap, nds, "memcached_rss"),
         mem_used              |-> Resource(base_url_ns_server, "mem_used"),
         memcached_cpu         |-> PerNode("atop", snap, nds, "memcached_cpu")]

NoUrls == Catalog(<<>>, <<>>, {})

\* "http://perf.jenkins.couchbase.com/job/" + project + "/" + number +
\* "/consoleText", lines 119-120
ConsoleUrl(proj, num) ==
    <<"http://perf.jenkins.couchbase.com/job/">> \o proj \o <<"/">> \o num
    \o <<"/", "consoleText">>

-----------------------------------------------------------------------------
(* Floats as exact rationals *)

Q(n, d) == [num |-> n, den |-> d]
Zero == Q(0, 1)
AddQ(a, b) == Q(a.num * b.den + b.num * a.den, a.den * b.den)
DivQ(a, k) == Q(a.num, a.den * k)
GreaterQ(a, b) == a.num * b.den > b.num * a.den
Abs(n) == IF n < 0 THEN -n ELSE n

\* byteToMBConversionFactor = 1.0/(1024*1024), line 100
MBDivisor == 1024 * 1024
ToMB(q) == DivQ(q, MBDivisor)

\* '{:.2f}'.format(q): the sign and the hundredths, rounded half to even
\* (every float of the model is a dyadic rational or a third of one, so the
\* rounding of the float and of the rational agree)
Format2(q) ==
    LET n  == 100 * Abs(q.num)
        fl == n \div q.den
        r2 == 2 * (n % q.den)
        h  == IF r2 < q.den THEN fl
              ELSE IF r2 > q.den THEN fl + 1
              ELSE IF fl % 2 = 0 THEN fl ELSE fl + 1
    IN  [kind |-> "fixed2", neg |-> q.num < 0, hundredths |-> h]

NA == [kind |-> "N/A", neg |-> FALSE, hundredths |-> 0]

-----------------------------------------------------------------------------
(* The metric reducers, lines 35-69 *)

\* what urlopen(url).read() gives: a transport error, or the JSON array
Fail == [ok |-> FALSE, body |-> <<>>]
Body(series) == [ok |-> TRUE, body |-> series]

Raise(e) == [err |-> e, val |-> Zero]
Return(q) == [err |-> "", val |-> q]

RECURSIVE SumValues(_)
SumValues(pairs) ==
    IF pairs = <<>> THEN 0 ELSE pairs[1][2] + SumValues(Tail(pairs))

\* lines 47-52 with the empty array answered by 0, as getMax does
getAverageEmptyZero(r) ==
    IF ~r.ok THEN Raise("URLError")
    ELSE IF Len(r.body) = 0 THEN Return(Zero)
    ELSE Return(Q(SumValues(r.body), Len(r.body)))

\* lines 47-52
getAverage(r) ==
    IF ~r.ok THEN Raise("URLError")
    ELSE IF Len(r.body) = 0 THEN Raise("ZeroDivisionError")
    ELSE Return(Q(SumValues(r.body), Len(r.body)))

\* lines 56-58: the loop over urls; n counts the downloads issued
RECURSIVE AccumulateFrom(_, _, _)
AccumulateFrom(rs, i, acc) ==
    IF i > Len(rs) THEN [err |-> "", val |-> acc, n |-> Len(rs)]
    ELSE LET a == getAverage(rs[i])
         IN  IF a.err # "" THEN [err |-> a.err, val |-> Zero, n |-> i]
             ELSE AccumulateFrom(rs, i + 1, AddQ(acc, a.val))

\* lines 55-59 with the division guarded against an empty list
getAverageFromListGuarded(rs, per_single_node) ==
    LET s == AccumulateFrom(rs, 1, Zero)
    IN  IF s.err # "" THEN s
        ELSE IF ~per_single_node \/ Len(rs) = 0 THEN s
        ELSE [err |-> "", val |-> DivQ(s.val, Len(rs)), n |-> s.n]

\* lines 55-59
getAverageFromList(rs, per_single_node) ==
    LET s == AccumulateFrom(rs, 1, Zero)
    IN  IF s.err # "" THEN s
        ELSE IF ~per_single_node THEN s
        ELSE IF Len(rs) = 0
             THEN [err |-> "ZeroDivisionError", val |-> Zero, n |-> 0]
        ELSE [err |-> "", val |-> DivQ(s.val, Len(rs)), n |-> s.n]

\* lines 63-68: the loop of getMax
RECURSIVE MaxFrom(_, _)
MaxFrom(pairs, maximum) ==
    IF pairs = <<>> THEN maximum
    ELSE LET value == Q(pairs[1][2], 1)
         IN  MaxFrom(Tail(pairs),
                     IF GreaterQ(value, maximum) THEN value ELSE maximum)

\* lines 62-69
getMax(r) ==
    IF ~r.ok THEN Raise("URLError")
    ELSE Return(MaxFrom(r.body, Zero))

-----------------------------------------------------------------------------
(* The dict literal of lines 196-241: the metric entries, in source order *)

Entry(k, f, u, per, mb, g) ==
    [key |-> k, fn |-> f, url |-> u, per_single_node |-> per, toMB |-> mb,
     gated |-> g]

Entries ==
    << Entry("ops", "avg", "ops", FALSE, FALSE, FALSE),
       Entry("latency_set", "avg", "latency_set", FALSE, FALSE, TRUE),
       Entry("latency_get", "avg", "latency_get", FALSE, FALSE, TRUE),
       Entry("avg_disk_update_time (us)", "avg", "avg_disk_update_time", FALSE, FALSE, FALSE),
       Entry("avg_disk_commit_time (s)", "avg", "avg_disk_commit_time", FALSE, FALSE, FALSE),
       Entry("avg_bg_wait_time (us)", "avg", "avg_bg_wait_time", FALSE, FALSE, FALSE),
       Entry("data_rps", "list", "data_rps", TRUE, FALSE, FALSE),
       Entry("data_wps", "list", "data_wps", TRUE, FALSE, FALSE),
       Entry("data_rbps (MB/s)", "list", "data_rbps", TRUE, TRUE, FALSE),
       Entry("data_wbps (MB/s)", "list", "data_wbps", TRUE, TRUE, FALSE),
       Entry("couch_total_disk_size (MB)", "avg", "couch_total_disk_size", FALSE, TRUE, FALSE),
       Entry("max couch_total_disk_size (MB)", "max", "couch_total_disk_size", FALSE, TRUE, FALSE),
       Entry("mem_used (MB)", "avg", "mem_used", FALSE, TRUE, FALSE),
       Entry("memcached_rss (MB, all nodes)", "list", "memcached_rss", FALSE, TRUE, FALSE),
       Entry("memcached_cpu", "list", "memcached_cpu", TRUE, FALSE, FALSE) >>

\* lines 197-199
HeaderEntries(proj, num, lbl, snap) ==
    ("job" :> (proj \o <<":">> \o num)) @@ ("label" :> lbl) @@ ("snapshot" :> snap)

\* lines 201-204: the entry a job without latency data gets
LatencyAbsentOmitted(d, key) == d

LatencyAbsent(d, key) == d @@ (key :> NA)

\* the formatted value of an entry
Formatted(e, q) == Format2(IF e.toMB THEN ToMB(q) ELSE q)

Unbound == [unbound |-> TRUE]

-----------------------------------------------------------------------------
(* The inputs: the command line and what the two servers answer *)

output_dir == <<"D">>

\* --job_list arguments: project:number, project:number:label, and one
\* without a ':'
JobArgs ==
    { <<"p", ":", "1">>,
      <<"p", ":", "2", ":", "my label">>,
      <<"p">> }

Stamp == <<"2018-01-16T11", ":", "35", ":", "11 [INFO] ">>

\* node addresses, one token per character: 1.11.1.1, 11.1.1.1, 1.1.1.2, 1.1.1.3
Ip1 == <<"1", ".", "1", "1", ".", "1", ".", "1">>
Ip2 == <<"1", "1", ".", "1", ".", "1", ".", "1">>
Ip3 == <<"1", ".", "1", ".", "1", ".", "2">>
Ip4 == <<"1", ".", "1", ".", "1", ".", "3">>

RECURSIVE NodeLines(_)
NodeLines(ips) ==
    IF ips = <<>> THEN <<>>
    ELSE Stamp \o <<"Getting memcached port ", "from", " ">> \o ips[1]
         \o <<"\n">> \o NodeLines(Tail(ips))

MkLog(snap, bkt, lat, ips) ==
    Stamp \o <<"Started by user", "\n">>
    \o (IF bkt THEN Stamp \o <<"Adding new bucket", ":", " ", "bucket-1", "\n">>
        ELSE <<>>)
    \o NodeLines(ips)
    \o (IF lat THEN Stamp \o <<"Collecting ", "spring_latency", " stats", "\n">>
        ELSE <<>>)
    \o (IF snap THEN Stamp \o <<"cbmonitor ", "snapshot", "=", "hera_pl_60", "\n">>
        ELSE <<>>)

\* the console logs the Jenkins server may answer with
Logs ==
    { MkLog(TRUE,  TRUE,  TRUE,  <<Ip3, Ip4, Ip1>>),
      MkLog(TRUE,  TRUE,  FALSE, <<Ip3>>),
      MkLog(TRUE,  TRUE,  FALSE, <<Ip1, Ip2, Ip3>>),
      MkLog(TRUE,  FALSE, TRUE,  <<Ip3>>),
      MkLog(TRUE,  TRUE,  TRUE,  <<>>),
      MkLog(TRUE,  TRUE,  FALSE, <<>>),
      MkLog(FALSE, TRUE,  TRUE,  <<Ip3, Ip4, Ip1>>),
      MkLog(FALSE, TRUE,  TRUE,  <<>>),
      MkLog(FALSE, TRUE,  FALSE, <<Ip3, Ip4, Ip1>>),
      MkLog(FALSE, TRUE,  FALSE, <<>>),
      MkLog(FALSE, FALSE, TRUE,  <<Ip3, Ip4, Ip1>>),
      MkLog(FALSE, FALSE, TRUE,  <<>>),
      MkLog(FALSE, FALSE, FALSE, <<Ip3, Ip4, Ip1>>),
      MkLog(FALSE, FALSE, FALSE, <<>>) }

\* the series the metrics service may answer with
Series246 == << <<0, 2>>, <<1, 4>>, <<2, 6>> >>
SeriesNeg == << <<0, -3>>, <<1, -1>> >>

AverageAnswers == {Fail, Body(<<>>), Body(Series246)}
MaxAnswers     == {Fail, Body(<<>>), Body(Series246), Body(SeriesNeg)}

-----------------------------------------------------------------------------
(* The script *)

EmptyDict == [k \in {} |-> NA]

NoCsv == [exists |-> FALSE, header |-> {}, rows |-> <<>>]

Init ==
    /\ job_list \in UNION {[1..n -> JobArgs] : n \in 1..MaxJobs}
    /\ idx = 0
    /\ pc = "for"
    /\ error = ""
    /\ project = <<>> /\ number = <<>> /\ label = <<>>
    /\ consoleText = <<>> /\ snapshot = <<>> /\ nodes = {} /\ bucket = <<>>
    /\ urls = NoUrls
    /\ hasLatency = FALSE
    /\ fld = 0
    /\ partial = EmptyDict
    /\ data = Unbound
    /\ data_list = <<>>
    /\ json_files = <<>>
    /\ csv_file = NoCsv
    /\ downloads = <<>>
    /\ skipped = {}
    /\ rowJob = <<>>
    /\ lastMax = [called |-> FALSE, series |-> <<>>, result |-> Zero]

jobVars   == <<project, number, label>>
scrapedVars == <<consoleText, snapshot, nodes, bucket, urls, hasLatency>>
outVars   == <<data, data_list, json_files, csv_file, rowJob>>

\* an uncaught exception ends the interpreter
Abort(e) == pc' = "aborted" /\ error' = e

\* one downloadData call: the job it was made for, its URL, its caller,
\* whether urlopen succeeded and whether the array read was empty
Downloaded(u, r, caller) ==
    [job |-> idx, url |-> u, by |-> caller, ok |-> r.ok,
     empty |-> r.ok /\ r.body = <<>>]

\* line 106: the for statement takes the next job
NextJob ==
    /\ pc = "for"
    /\ idx < Len(job_list)
    /\ idx' = idx + 1
    /\ pc' = "split"
    /\ UNCHANGED <<job_list, error, jobVars, scrapedVars, fld, partial, outVars,
                   downloads, skipped, lastMax>>

\* line 106: the list is exhausted
EndLoop ==
    /\ pc = "for"
    /\ idx = Len(job_list)
    /\ pc' = "csv"
    /\ UNCHANGED <<job_list, idx, error, jobVars, scrapedVars, fld, partial,
                   outVars, downloads, skipped, lastMax>>

\* lines 111-117
SplitJob ==
    /\ pc = "split"
    /\ LET array == Split(job_list[idx], <<":">>)
       IN  IF Len(array) < 2
           THEN /\ pc' = "exited"
                /\ UNCHANGED jobVars
           ELSE /\ project' = array[1]
                /\ number' = array[2]
                /\ label' = IF Len(array) = 3 THEN array[3] ELSE <<>>
                /\ pc' = "log"
    /\ UNCHANGED <<job_list, idx, error, scrapedVars, fld, partial, outVars,
                   downloads, skipped, lastMax>>

\* lines 119-120
DownloadLog ==
    /\ pc = "log"
    /\ \E r \in {Fail} \cup {Body(l) : l \in Logs} :
          /\ downloads' = Append(downloads, Downloaded(ConsoleUrl(project, number), r, "main"))
          /\ IF r.ok
             THEN consoleText' = r.body /\ pc' = "snapshot" /\ UNCHANGED error
             ELSE Abort("URLError") /\ UNCHANGED consoleText
    /\ UNCHANGED <<job_list, idx, jobVars, snapshot, nodes, bucket, urls,
                   hasLatency, fld, partial, outVars, skipped, lastMax>>

\* the 'continue' of line 125 as a 'break'
SkipJobBreak ==
    /\ pc = "snapshot"
    /\ SnapshotMissing(consoleText)
    /\ skipped' = skipped \cup {idx}
    /\ pc' = "csv"
    /\ UNCHANGED <<job_list, idx, error, jobVars, scrapedVars, fld, partial,
                   outVars, downloads, lastMax>>

\* lines 122-125
SkipJob ==
    /\ pc = "snapshot"
    /\ SnapshotMissing(consoleText)
    /\ skipped' = skipped \cup {idx}
    /\ pc' = "for"
    /\ UNCHANGED <<job_list, idx, error, jobVars, scrapedVars, fld, partial,
                   outVars, downloads, lastMax>>

\* lines 122, 126
ExtractSnapshot ==
    /\ pc = "snapshot"
    /\ ~SnapshotMissing(consoleText)
    /\ snapshot' = SnapshotOf(consoleText)
    /\ pc' = "nodes"
    /\ UNCHANGED <<job_list, idx, error, jobVars, consoleText, nodes, bucket,
                   urls, hasLatency, fld, partial, outVars, downloads, skipped,
                   lastMax>>

\* lines 136-141
ExtractNodes ==
    /\ pc = "nodes"
    /\ nodes' = NodesOf(consoleText)
    /\ pc' = "bucket"
    /\ UNCHANGED <<job_list, idx, error, jobVars, consoleText, snapshot, bucket,
                   urls, hasLatency, fld, partial, outVars, downloads, skipped,
                   lastMax>>

\* lines 148-151
ExtractBucket ==
    /\ pc = "bucket"
    /\ LET b == BucketOf(consoleText)
       IN  IF b = <<>>
           THEN Abort("AttributeError") /\ UNCHANGED bucket
           ELSE bucket' = b[1] /\ pc' = "urls" /\ UNCHANGED error
    /\ UNCHANGED <<job_list, idx, jobVars, consoleText, snapshot, nodes, urls,
                   hasLatency, fld, partial, outVars, downloads, skipped,
                   lastMax>>

\* lines 156-199: the URL variables, hasLatency, and the first three entries
\* of the dict literal
AssembleUrls ==
    /\ pc = "urls"
    /\ urls' = Catalog(snapshot, bucket, nodes)
    /\ hasLatency' = HasLatencyOf(consoleText)
    /\ partial' = HeaderEntries(project, number, label, snapshot)
    /\ fld' = 1
    /\ pc' = "data"
    /\ UNCHANGED <<job_list, idx, error, jobVars, consoleText, snapshot, nodes,
                   bucket, outVars, downloads, skipped, lastMax>>

AtEntry(f) ==
    /\ pc = "data"
    /\ fld <= Len(Entries)
    /\ Entries[fld].fn = f

\* an entry's value is in, or its exception ends the run
Outcome(e, res) ==
    IF res.err # ""
    THEN Abort(res.err) /\ UNCHANGED <<fld, partial>>
    ELSE /\ partial' = partial @@ (e.key :> Formatted(e, res.val))
         /\ fld' = fld + 1
         /\ UNCHANGED <<pc, error>>

\* lines 200-209, 220-224, 230-233: '{:.2f}'.format(getAverage(url))
EvalAverage ==
    /\ AtEntry("avg")
    /\ LET e == Entries[fld]
       IN  /\ e.gated => hasLatency
           /\ \E r \in AverageAnswers :
                 /\ downloads' = Append(downloads,
                                        Downloaded(urls[e.url], r, "getAverage"))
                 /\ Outcome(e, getAverage(r))
    /\ UNCHANGED <<job_list, idx, jobVars, scrapedVars, outVars, skipped, lastMax>>

\* lines 201-204: ... if hasLatency else 'N/A'
EvalNA ==
    /\ AtEntry("avg")
    /\ Entries[fld].gated
    /\ ~hasLatency
    /\ partial' = LatencyAbsent(partial, Entries[fld].key)
    /\ fld' = fld + 1
    /\ UNCHANGED <<job_list, idx, pc, error, jobVars, scrapedVars, outVars,
                   downloads, skipped, lastMax>>

\* lines 210-219, 234-240: '{:.2f}'.format(getAverageFromList(urls, flag))
EvalAverageFromList ==
    /\ AtEntry("list")
    /\ LET e  == Entries[fld]
           us == urls[e.url]
       IN  \E rs \in [1..Len(us) -> AverageAnswers] :
              LET res == getAverageFromList(rs, e.per_single_node)
              IN  /\ downloads' = downloads \o
                         [i \in 1..res.n |-> Downloaded(us[i], rs[i], "getAverage")]
                  /\ Outcome(e, res)
    /\ UNCHANGED <<job_list, idx, jobVars, scrapedVars, outVars, skipped, lastMax>>

\* lines 225-229: '{:.2f}'.format(getMax(url) * byteToMBConversionFactor)
EvalMax ==
    /\ AtEntry("max")
    /\ LET e == Entries[fld]
       IN  \E r \in MaxAnswers :
              LET res == getMax(r)
              IN  /\ downloads' = Append(downloads,
                                         Downloaded(urls[e.url], r, "getMax"))
                  /\ lastMax' = IF r.ok
                                THEN [called |-> TRUE, series |-> r.body,
                                      result |-> res.val]
                                ELSE lastMax
                  /\ Outcome(e, res)
    /\ UNCHANGED <<job_list, idx, jobVars, scrapedVars, outVars, skipped>>

\* lines 196, 243 with the record put at the front of data_list
AssignDataPrepend ==
    /\ pc = "data"
    /\ fld > Len(Entries)
    /\ data' = partial
    /\ data_list' = <<partial>> \o data_list
    /\ rowJob' = <<idx>> \o rowJob
    /\ pc' = "json"
    /\ UNCHANGED <<job_list, idx, error, jobVars, scrapedVars, fld, partial,
                   json_files, csv_file, downloads, skipped, lastMax>>

\* lines 196, 243: the dict is bound to 'data' and appended
AssignData ==
    /\ pc = "data"
    /\ fld > Len(Entries)
    /\ data' = partial
    /\ data_list' = Append(data_list, partial)
    /\ rowJob' = Append(rowJob, idx)
    /\ pc' = "json"
    /\ UNCHANGED <<job_list, idx, error, jobVars, scrapedVars, fld, partial,
                   json_files, csv_file, downloads, skipped, lastMax>>

JsonName(proj, num) == output_dir \o <<"/">> \o proj \o <<"-">> \o num \o <<".json">>

\* lines 246-250
WriteJson ==
    /\ pc = "json"
    /\ json_files' = Append(json_files,
                            [name |-> JsonName(project, number),
                             content |-> data, job |-> idx])
    /\ pc' = "for"
    /\ UNCHANGED <<job_list, idx, error, jobVars, scrapedVars, fld, partial,
                   data, data_list, csv_file, rowJob, downloads, skipped,
                   lastMax>>

\* lines 253-254: open(csv_file, "wb") creates or truncates data.csv
OpenCsv ==
    /\ pc = "csv"
    /\ csv_file' = [exists |-> TRUE, header |-> {}, rows |-> <<>>]
    /\ pc' = "csvwrite"
    /\ UNCHANGED <<job_list, idx, error, jobVars, scrapedVars, fld, partial,
                   data, data_list, json_files, rowJob, downloads, skipped,
                   lastMax>>

\* DictWriter.writerow: the row under the header's columns
CsvRow(header, row) == [k \in header |-> IF k \in DOMAIN row THEN row[k] ELSE <<>>]

\* lines 255-260; 'data' is read before the loop rebinds it
WriteCsv ==
    /\ pc = "csvwrite"
    /\ IF data = Unbound
       THEN Abort("NameError") /\ UNCHANGED <<csv_file, data>>
       ELSE LET header == DOMAIN data
                extra  == {i \in 1..Len(data_list) :
                              ~(DOMAIN data_list[i] \subseteq header)}
            IN  IF extra = {}
                THEN /\ csv_file' = [exists |-> TRUE, header |-> header,
                                     rows |-> [i \in 1..Len(data_list) |->
                                                  CsvRow(header, data_list[i])]]
                     /\ data' = data_list[Len(data_list)]
                     /\ pc' = "done"
                     /\ UNCHANGED error
                ELSE LET first == CHOOSE i \in extra : \A j \in extra : i <= j
                     IN  /\ csv_file' = [exists |-> TRUE, header |-> header,
                                         rows |-> [i \in 1..(first - 1) |->
                                                  CsvRow(header, data_list[i])]]
                         /\ data' = data_list[first]
                         /\ Abort("ValueError")
    /\ UNCHANGED <<job_list, idx, jobVars, scrapedVars, fld, partial, data_list,
                   json_files, rowJob, downloads, skipped, lastMax>>

Next ==
    \/ NextJob
    \/ EndLoop
    \/ SplitJob
    \/ DownloadLog
    \/ SkipJob
    \/ ExtractSnapshot
    \/ ExtractNodes
    \/ ExtractBucket
    \/ AssembleUrls
    \/ EvalAverage
    \/ EvalNA
    \/ EvalAverageFromList
    \/ EvalMax
    \/ AssignData
    \/ WriteJson
    \/ OpenCsv
    \/ WriteCsv

Spec == Init /\ [][Next]_vars

-----------------------------------------------------------------------------
(* Properties *)

Last(q) == q[Len(q)]

\* the job identifier's fields, read off the argument
ArgProject(arg) == <<arg[1]>>
ArgNumber(arg)  == <<arg[3]>>
ArgLabel(arg)   == IF Len(arg) = 5 THEN <<arg[5]>> ELSE <<>>

\* consoleText is the log of job idx
InJob == pc \in {"snapshot", "nodes", "bucket", "urls", "data", "json"}

IsMetricUrl(u)  == u[1] = host
IsLatencyUrl(u) == IsMetricUrl(u) /\ u[3] = "spring_latency"

DownloadsOf(i) == {k \in DOMAIN downloads : downloads[k].job = i}

\* C1: a job whose log lacks 'snapshot=' is skipped whatever else the log
\* holds: past the snapshot test the log of the job at hand has the marker,
\* and a skipped job has no download but that of its log, no JSON file and no
\* record, and leaves the loop at the for statement, which takes the job
\* after it when there is one.
C1_SkippedJob ==
    /\ (pc \in {"nodes", "bucket", "urls", "data", "json"})
          => ~SnapshotMissing(consoleText)
    /\ (pc = "for" /\ idx >= 1 /\ SnapshotMissing(consoleText))
          => idx \in skipped
    /\ \A i \in skipped :
          /\ \A k \in DownloadsOf(i) : ~IsMetricUrl(downloads[k].url)
          /\ \A k \in DOMAIN json_files : json_files[k].job # i
          /\ \A k \in DOMAIN rowJob : rowJob[k] # i
          /\ Len(csv_file.rows) <= Len(rowJob)
          /\ (idx = i /\ i < Len(job_list)) => (pc = "for" /\ ENABLED NextJob)

W1_SkippedThenProcessed ==
    \E i \in skipped :
       /\ \E k \in DOMAIN json_files : json_files[k].job = i + 1
       /\ pc = "done"
       /\ Len(csv_file.rows) = 1

\* C2: when every job of the list was processed, there is one JSON write per
\* job, in list order, named <output_dir>/<project>-<number>.json and holding
\* the job's record, and data.csv holds exactly these records as its rows, in
\* list order; data.csv exists only once the loop is over.
C2_FilesInJobOrder ==
    /\ csv_file.exists =>
          /\ pc \in {"csvwrite", "done", "aborted"}
          /\ idx = Len(job_list)
    /\ (pc = "done" /\ skipped = {}) =>
          /\ Len(json_files) = Len(job_list)
          /\ Len(csv_file.rows) = Len(job_list)
          /\ \A i \in DOMAIN job_list :
                /\ json_files[i].job = i
                /\ json_files[i].name =
                      output_dir \o <<"/">> \o ArgProject(job_list[i]) \o <<"-">>
                      \o ArgNumber(job_list[i]) \o <<".json">>
                /\ json_files[i].content = csv_file.rows[i]
                /\ rowJob[i] = i
                /\ csv_file.rows[i]["job"] =
                      ArgProject(job_list[i]) \o <<":">> \o ArgNumber(job_list[i])
                /\ csv_file.rows[i]["label"] = ArgLabel(job_list[i])

W2_TwoJobsWritten ==
    /\ pc = "done"
    /\ skipped = {}
    /\ Len(job_list) = 2
    /\ csv_file.rows[1] # csv_file.rows[2]

\* C3: a missing snapshot marker never aborts the run: once every job of the
\* list has been skipped or processed the run is not aborted, and when it is
\* over data.csv has the record keys as header and one row per processed job.
C3_SkipNeverAborts ==
    (idx = Len(job_list) /\ Cardinality(skipped) + Len(json_files) = Len(job_list))
       => /\ pc # "aborted"
          /\ pc = "done" =>
                /\ csv_file.exists
                /\ csv_file.header # {}
                /\ Len(csv_file.rows) = Len(rowJob)

\* C4: a transport error, a log with the snapshot marker but no 'Adding new
\* bucket' line and an empty series reduced by mean each end the run where
\* they happen; the run then takes no further step, no JSON file was written
\* for the failing job, data.csv does not exist and the JSON files of the
\* earlier jobs hold those jobs' records.
FatalErrors == {"URLError", "AttributeError", "ZeroDivisionError"}

C4_FailuresAreFatal ==
    /\ \A k \in DOMAIN downloads :
          /\ ~downloads[k].ok =>
                (k = Len(downloads) /\ pc = "aborted" /\ error = "URLError")
          /\ (downloads[k].by = "getAverage" /\ downloads[k].empty) =>
                (k = Len(downloads) /\ pc = "aborted"
                 /\ error = "ZeroDivisionError")
    /\ (pc \in {"urls", "data", "json"}) => Find(consoleText, BucketMarker) # -1
    /\ (pc = "aborted" /\ error \in FatalErrors) =>
          /\ ~ENABLED Next
          /\ ~csv_file.exists
          /\ \A k \in DOMAIN downloads : downloads[k].job <= idx
          /\ Len(json_files) = Len(data_list)
          /\ \A k \in DOMAIN json_files :
                /\ json_files[k].job < idx
                /\ json_files[k].content = data_list[k]

W4_AbortAfterFirstJob ==
    /\ pc = "aborted"
    /\ error = "ZeroDivisionError"
    /\ Last(downloads).empty
    /\ idx = 2
    /\ Len(json_files) = 1

\* C5: all records of data_list have the same keys, with or without latency
\* data and with or without a label, and the header of data.csv, the keys of
\* the last processed job's record, is the key set of every row written.
C5_SameKeys ==
    /\ \A i, j \in DOMAIN data_list : DOMAIN data_list[i] = DOMAIN data_list[j]
    /\ \A i \in DOMAIN data_list :
          {"latency_get", "latency_set", "label"} \subseteq DOMAIN data_list[i]
    /\ pc = "done" =>
          /\ csv_file.header = DOMAIN Last(data_list)
          /\ Len(csv_file.rows) = Len(data_list)
          /\ \A i \in DOMAIN csv_file.rows : csv_file.rows[i] = data_list[i]

W5_MixedRecords ==
    /\ pc = "done"
    /\ \E i, j \in DOMAIN data_list :
          /\ data_list[i]["latency_get"] = NA
          /\ data_list[j]["latency_get"] # NA
          /\ data_list[i]["label"] # data_list[j]["label"]

\* C6: getMax returns the maximum of the observed values, and 0 for the
\* empty series.
RefMax(pairs) ==
    CHOOSE v \in {pairs[i][2] : i \in DOMAIN pairs} :
        \A i \in DOMAIN pairs : v >= pairs[i][2]

C6_GetMaxIsMaximum ==
    lastMax.called =>
        lastMax.result = IF lastMax.series = <<>> THEN Zero
                         ELSE Q(RefMax(lastMax.series), 1)

\* C7: a log with three 'Getting memcached port from <ip>' lines with
\* pairwise distinct addresses gives a node set of exactly three elements,
\* each an address without its dots.
LoggedAddresses(text) ==
    LET all == FindAll(text, NodeMarker)
    IN  [i \in 1..Len(all) |-> Strip(Split(all[i], <<"from">>)[2])]

C7_ThreeNodes ==
    LET ips == LoggedAddresses(consoleText)
    IN  (/\ pc \in {"bucket", "urls", "data", "json"}
         /\ Len(ips) = 3
         /\ \A i, j \in 1..3 : i # j => ips[i] # ips[j])
        => /\ Cardinality(nodes) = 3
           /\ nodes = {RemoveDots(ips[i]) : i \in 1..3}

\* C8: a job whose log lacks 'spring_latency' never has a latency URL
\* downloaded and its record has 'N/A' in both latency fields; a job whose
\* log has it gets both latency URLs downloaded and two-decimal numbers in
\* both fields.
C8_LatencyGate ==
    LET lat == Find(consoleText, LatencyMarker) # -1
        got == {downloads[k].url : k \in DownloadsOf(idx)}
    IN  /\ (InJob /\ ~lat) => \A u \in got : ~IsLatencyUrl(u)
        /\ (pc = "json" /\ ~lat) =>
              /\ data["latency_get"] = NA
              /\ data["latency_set"] = NA
        /\ (pc = "json" /\ lat) =>
              /\ urls.latency_get \in got /\ IsLatencyUrl(urls.latency_get)
              /\ urls.latency_set \in got /\ IsLatencyUrl(urls.latency_set)
              /\ data["latency_get"].kind = "fixed2"
              /\ data["latency_set"].kind = "fixed2"
              /\ data["latency_get"].hundredths \in Nat
              /\ data["latency_set"].hundredths \in Nat

W8_BothKinds ==
    /\ pc = "json"
    /\ idx = 2
    /\ Find(consoleText, LatencyMarker) = -1
    /\ data_list[1]["latency_set"].kind = "fixed2"
    /\ data_list[2]["latency_set"] = NA

\* the URL variables with the dataset, the segment after the snapshot and the
\* resource each is meant for
SingleUrls ==
    { <<urls.ops, "ns_server", <<>>, "ops">>,
      <<urls.latency_get, "spring_latency", bucket, "latency_get">>,
      <<urls.latency_set, "spring_latency", bucket, "latency_set">>,
      <<urls.avg_bg_wait_time, "ns_server", bucket, "avg_bg_wait_time">>,
      <<urls.avg_disk_commit_time, "ns_server", bucket, "avg_disk_commit_time">>,
      <<urls.avg_disk_update_time, "ns_server", bucket, "avg_disk_update_time">>,
      <<urls.couch_total_disk_size, "ns_server", bucket, "couch_total_disk_size">>,
      <<urls.mem_used, "ns_server", bucket, "mem_used">> }

NodeUrls ==
    { <<urls.data_rps, "iostat", "data_rps">>,
      <<urls.data_wps, "iostat", "data_wps">>,
      <<urls.data_rbps, "iostat", "data_rbps">>,
      <<urls.data_wbps, "iostat", "data_wbps">>,
      <<urls.memcached_rss, "atop", "memcached_rss">>,
      <<urls.memcached_cpu, "atop", "memcached_cpu">> }

UrlsHaveShape(Shape(_, _, _, _)) ==
    /\ \A t \in SingleUrls : Shape(t[1], t[2], t[3], t[4])
    /\ \A t \in NodeUrls :
          /\ Len(t[1]) = Cardinality(nodes)
          /\ \A n \in nodes : \E i \in DOMAIN t[1] : Shape(t[1][i], t[2], n, t[3])

\* host/<dataset>/<snapshot>[/<segment>]/<resource>
SeparatedShape(u, dataset, seg, resource) ==
    Split(u, <<"/">>) =
        <<<<host>>, <<dataset>>, snapshot>>
        \o (IF seg = <<>> THEN <<>> ELSE <<seg>>) \o <<<<resource>>>>

\* host/<dataset><snapshot>[<segment>]/<resource>
JoinedShape(u, dataset, seg, resource) ==
    Split(u, <<"/">>) = <<<<host>>, <<dataset>> \o snapshot \o seg, <<resource>>>>

\* C9 as stated: in every URL the dataset, the snapshot id, the optional node
\* or bucket segment and the resource are separate path segments.
C9_Original ==
    (pc \in {"data", "json"}) => UrlsHaveShape(SeparatedShape)

\* C9 as amended: every URL is host/<dataset><snapshot>[<node-or-bucket>]/
\* <resource>: the dataset, the snapshot id and the optional segment are one
\* path segment, joined without separators; only the host and the resource
\* are set off by '/'.
C9_JoinedSegment ==
    (pc \in {"data", "json"}) => UrlsHaveShape(JoinedShape)

W9_ThreeNodeCatalog ==
    /\ pc = "data"
    /\ Cardinality(nodes) = 3
    /\ bucket # <<>>
    /\ snapshot # <<>>

\* C10: a job with the snapshot and bucket markers but no node line never
\* yields a record: the dict literal gets no further than 'data_rps', where
\* the run aborts with a division by zero after the ops, latency (if any)
\* and timing downloads and before any per-node download, with no JSON file
\* for the job and no data.csv; summing (per_single_node false) over no URL
\* gives 0 without error.
IostatEntry == CHOOSE i \in DOMAIN Entries : Entries[i].key = "data_rps"

C10_NoNodesAborts ==
    /\ (pc \in {"data", "json"} /\ nodes = {}) =>
          (pc = "data" /\ fld <= IostatEntry)
    /\ (pc = "aborted" /\ nodes = {} /\ fld = IostatEntry) =>
          LET got == {downloads[k].url : k \in DownloadsOf(idx)}
          IN  /\ error = "ZeroDivisionError"
              /\ {urls.ops, urls.avg_disk_update_time,
                  urls.avg_disk_commit_time, urls.avg_bg_wait_time} \subseteq got
              /\ hasLatency <=> ({urls.latency_get, urls.latency_set} \subseteq got)
              /\ \A u \in got : IsMetricUrl(u) => u[3] \in {"ns_server", "spring_latency"}
              /\ \A k \in DOMAIN json_files : json_files[k].job # idx
              /\ \A k \in DOMAIN rowJob : rowJob[k] # idx
              /\ ~csv_file.exists
    /\ getAverageFromList(<<>>, FALSE) = [err |-> "", val |-> Zero, n |-> 0]

W10_NoNodesAborted ==
    /\ pc = "aborted"
    /\ error = "ZeroDivisionError"
    /\ nodes = {}
    /\ fld = IostatEntry
    /\ hasLatency
    /\ Cardinality(DownloadsOf(idx)) > 5

====
